---- MODULE Spec2Model ----
(***************************************************************************)
(* Model of aiida_aurora/scheduler.py: the TomatoScheduler plugin.         *)
(*                                                                         *)
(* A Python str is a sequence of one-character strings, so that strip,     *)
(* split, substring search and the regular expression are computed and not *)
(* assumed.  A list of lines stands for stdout after splitlines().         *)
(***************************************************************************)
EXTENDS Integers, Sequences, FiniteSets, TLC

VARIABLES shell_cmd, pc, tmpl, header, command, call, result

vars == <<shell_cmd, pc, tmpl, header, command, call, result>>

(***************************************************************************)
(* Python values                                                           *)
(***************************************************************************)
\* None (also: an attribute of a JobInfo that was never set).  It differs
\* from every str, the empty one included, because no character is "None".
None == <<"None">>

\* str.strip(), str.split() and \s of the re module: whitespace characters
WhiteSpace == {" ", "\t"}

Digits == {"0", "1", "2", "3", "4", "5", "6", "7", "8", "9"}

\* string.ascii_letters
AsciiLetters ==
    {"a", "b", "c", "d", "e", "f", "g", "h", "i", "j", "k", "l", "m",
     "n", "o", "p", "q", "r", "s", "t", "u", "v", "w", "x", "y", "z",
     "A", "B", "C", "D", "E", "F", "G", "H", "I", "J", "K", "L", "M",
     "N", "O", "P", "Q", "R", "S", "T", "U", "V", "W", "X", "Y", "Z"}

RECURSIVE LStrip(_)
LStrip(s) ==
    IF s = <<>> THEN s
    ELSE IF Head(s) \in WhiteSpace THEN LStrip(Tail(s)) ELSE s

RECURSIVE RStrip(_)
RStrip(s) ==
    IF s = <<>> THEN s
    ELSE IF s[Len(s)] \in WhiteSpace THEN RStrip(SubSeq(s, 1, Len(s) - 1)) ELSE s

\* str.strip()
Strip(s) == RStrip(LStrip(s))

\* s[i:] starts with p (i is 1-based)
StartsWithAt(s, i, p) ==
    /\ i + Len(p) - 1 <= Len(s)
    /\ \A k \in 1..Len(p) : s[i + k - 1] = p[k]

\* the Python test  p in s  on two str
Contains(p, s) == \E i \in 1..(Len(s) + 1) : StartsWithAt(s, i, p)

\* str.split(ch): the pieces between the occurrences of ch, empty ones kept
RECURSIVE SplitAcc(_, _, _, _)
SplitAcc(s, ch, cur, acc) ==
    IF s = <<>> THEN Append(acc, cur)
    ELSE IF Head(s) = ch THEN SplitAcc(Tail(s), ch, <<>>, Append(acc, cur))
    ELSE SplitAcc(Tail(s), ch, Append(cur, Head(s)), acc)

SplitOn(s, ch) == SplitAcc(s, ch, <<>>, <<>>)

\* str.split(): the maximal runs of non-whitespace characters
RECURSIVE SplitWSAcc(_, _, _)
SplitWSAcc(s, cur, acc) ==
    IF s = <<>> THEN (IF cur = <<>> THEN acc ELSE Append(acc, cur))
    ELSE IF Head(s) \in WhiteSpace
         THEN SplitWSAcc(Tail(s), <<>>, IF cur = <<>> THEN acc ELSE Append(acc, cur))
         ELSE SplitWSAcc(Tail(s), Append(cur, Head(s)), acc)

SplitWS(s) == SplitWSAcc(s, <<>>, <<>>)

\* list(map(str.strip, parts))
MapStrip(parts) == [k \in 1..Len(parts) |-> Strip(parts[k])]

(***************************************************************************)
(* Literals of the source                                                  *)
(***************************************************************************)
S_jobid == <<"j", "o", "b", "i", "d">>
S_jobname == <<"j", "o", "b", "n", "a", "m", "e">>
S_status == <<"s", "t", "a", "t", "u", "s">>
S_submitted_at == <<"s", "u", "b", "m", "i", "t", "t", "e", "d", " ", "a", "t">>
S_executed_at == <<"e", "x", "e", "c", "u", "t", "e", "d", " ", "a", "t">>
S_completed_at == <<"c", "o", "m", "p", "l", "e", "t", "e", "d", " ", "a", "t">>
S_with_pipeline == <<"w", "i", "t", "h", " ", "p", "i", "p", "e", "l", "i", "n", "e">>
S_with_PID == <<"w", "i", "t", "h", " ", "P", "I", "D">>
S_jobid_eq == <<"j", "o", "b", "i", "d", " ", "=">>
S_separator == <<"=", "=", "=", "=", "=", "=", "=", "=", "=">>
S_bash == <<"b", "a", "s", "h">>
S_powershell == <<"p", "o", "w", "e", "r", "s", "h", "e", "l", "l">>
S_JOB_TITLE == <<"J", "O", "B", "_", "T", "I", "T", "L", "E", "=", "'">>
S_quote == <<"'">>
S_dollar == <<"$">>
S_j == <<"j">>
S_space == <<" ">>

(***************************************************************************)
(* Results of a call: a returned value or a raised exception               *)
(***************************************************************************)
Ok(v) == [exc |-> "none", val |-> v]
Raise(e) == [exc |-> e, val |-> None]

(***************************************************************************)
(* JobState, JobInfo and the status map                                    *)
(***************************************************************************)
\* aiida.schedulers.datastructures.JobState members used by the plugin
QUEUED == <<"JobState.QUEUED">>
RUNNING == <<"JobState.RUNNING">>
DONE == <<"JobState.DONE">>
UNDETERMINED == <<"JobState.UNDETERMINED">>

\* the keys of _MAP_STATUS_TOMATO
StatusCodes == {<<"q">>, <<"q", "w">>, <<"r">>, <<"c">>, <<"c", "e">>, <<"c", "d">>}

MAP_STATUS_TOMATO ==
    [code \in StatusCodes |->
        CASE code = <<"q">> -> QUEUED
          [] code = <<"q", "w">> -> QUEUED
          [] code = <<"r">> -> RUNNING
          [] code = <<"c">> -> DONE
          [] code = <<"c", "e">> -> DONE
          [] code = <<"c", "d">> -> DONE]

\* the lookup with an except clause that leaves job_state unset
JobStateOrUndetermined_NoFallback(code) ==
    IF code \in DOMAIN MAP_STATUS_TOMATO THEN MAP_STATUS_TOMATO[code] ELSE None

\* try: _MAP_STATUS_TOMATO[code]  except KeyError: JobState.UNDETERMINED
JobStateOrUndetermined(code) ==
    IF code \in DOMAIN MAP_STATUS_TOMATO THEN MAP_STATUS_TOMATO[code] ELSE UNDETERMINED

\* JobInfo(): a fresh record, every attribute unset (reads as None).  The
\* one-element list allocated_machines is held as its element.
JobInfo ==
    [type |-> "JobInfo", job_id |-> None, title |-> None, job_state |-> None,
     pipeline |-> None, allocated_machines |-> None, submission_time |-> None,
     dispatch_time |-> None, finish_time |-> None, raw_data |-> None]

\* the value None where a JobInfo is expected (this_job before the first jobid line)
NoneObject == [JobInfo EXCEPT !.type = "NoneType"]

\* datetime.datetime.fromisoformat, on the date-only form YYYY-MM-DD: the
\* datetime is held as its text; any other text is a ValueError
FromIsoFormat(s) ==
    IF /\ Len(s) = 10
       /\ \A k \in {1, 2, 3, 4, 6, 7, 9, 10} : s[k] \in Digits
       /\ s[5] = "-"
       /\ s[8] = "-"
    THEN Ok(s)
    ELSE Raise("ValueError")

(***************************************************************************)
(* _parse_joblist_output                                                   *)
(***************************************************************************)
\* one pass of the loop over the rows with title and pipeline read from the
\* wrong columns
ParseQueueRow_ShiftedColumns(line) ==
    LET job == SplitWS(line)
    IN  IF Len(job) < 3 THEN Raise("IndexError")
        ELSE IF Len(job) > 4 THEN Raise("ValueError")
        ELSE Ok([JobInfo EXCEPT
                    !.job_id = job[1],
                    !.title = job[3],
                    !.job_state = JobStateOrUndetermined(job[3]),
                    !.pipeline = IF Len(job) = 4 THEN job[2] ELSE None,
                    !.raw_data = job])

\* one pass of the loop over jobdata_raw[2:] ('ketchup status queue'):
\* job[0], job[1] and job[2] are read before the length of job is tested,
\* and only a KeyError is caught around job[2]
ParseQueueRow(line) ==
    LET job == SplitWS(line)
    IN  IF Len(job) < 3 THEN Raise("IndexError")
        ELSE IF Len(job) > 4 THEN Raise("ValueError")
        ELSE Ok([JobInfo EXCEPT
                    !.job_id = job[1],
                    !.title = job[2],
                    !.job_state = JobStateOrUndetermined(job[3]),
                    !.pipeline = IF Len(job) = 4 THEN job[4] ELSE None,
                    !.raw_data = job])

\* the loop over the rows with a malformed row skipped instead of raised
RECURSIVE ParseQueueRows_SkipBadRow(_, _)
ParseQueueRows_SkipBadRow(rows, job_list) ==
    IF rows = <<>> THEN Ok(job_list)
    ELSE LET r == ParseQueueRow(Head(rows))
         IN  IF r.exc # "none" THEN ParseQueueRows_SkipBadRow(Tail(rows), job_list)
             ELSE ParseQueueRows_SkipBadRow(Tail(rows), Append(job_list, r.val))

RECURSIVE ParseQueueRows(_, _)
ParseQueueRows(rows, job_list) ==
    IF rows = <<>> THEN Ok(job_list)
    ELSE LET r == ParseQueueRow(Head(rows))
         IN  IF r.exc # "none" THEN Raise(r.exc)
             ELSE ParseQueueRows(Tail(rows), Append(job_list, r.val))

\* the loop state of the 'ketchup status {jobid}' branch
DetailedState(e, tj, jl) == [exc |-> e, this_job |-> tj, job_list |-> jl]

\* an assignment  this_job.<attribute> = line[1]: the right-hand side is
\* evaluated first (IndexError), then the attribute of None is set
SetAttr(st, line, updated) ==
    IF Len(line) < 2 THEN [st EXCEPT !.exc = "IndexError"]
    ELSE IF st.this_job.type = "NoneType" THEN [st EXCEPT !.exc = "AttributeError"]
    ELSE [st EXCEPT !.this_job = updated]

\* a timestamp line: ValueError and IndexError are caught, and the handler
\* formats this_job.job_id into its warning
SetTime(st, line, field) ==
    LET t == IF Len(line) < 2 THEN Raise("IndexError") ELSE FromIsoFormat(line[2])
    IN  IF st.this_job.type = "NoneType" THEN [st EXCEPT !.exc = "AttributeError"]
        ELSE IF t.exc # "none" THEN st
        ELSE [st EXCEPT !.this_job = [st.this_job EXCEPT ![field] = t.val]]

\* one pass of the loop over jobdata_raw ('ketchup status {jobid} && ...')
DetailedLine(st, raw_line) ==
    LET line == MapStrip(SplitOn(raw_line, "="))
    IN  IF Contains(S_jobid, line[1]) THEN
            LET closed == IF st.this_job.type = "JobInfo"
                          THEN Append(st.job_list, st.this_job)
                          ELSE st.job_list
            IN  IF Len(line) < 2
                THEN DetailedState("IndexError", JobInfo, closed)
                ELSE DetailedState("none", [JobInfo EXCEPT !.job_id = line[2]], closed)
        ELSE IF Contains(S_jobname, line[1]) THEN
            SetAttr(st, line, [st.this_job EXCEPT !.title = line[2]])
        ELSE IF Contains(S_status, line[1]) THEN
            SetAttr(st, line,
                    [st.this_job EXCEPT !.job_state = JobStateOrUndetermined(line[2])])
        ELSE IF Contains(S_submitted_at, line[1]) THEN SetTime(st, line, "submission_time")
        ELSE IF Contains(S_executed_at, line[1]) THEN SetTime(st, line, "dispatch_time")
        ELSE IF Contains(S_completed_at, line[1]) THEN SetTime(st, line, "finish_time")
        ELSE IF Contains(S_with_pipeline, line[1]) THEN
            SetAttr(st, line, [st.this_job EXCEPT !.allocated_machines = line[2]])
        ELSE IF Contains(S_with_PID, line[1]) THEN st
        ELSE st

RECURSIVE ParseDetailedLines(_, _)
ParseDetailedLines(lines, st) ==
    IF st.exc # "none" THEN Raise(st.exc)
    ELSE IF lines = <<>> THEN Ok(Append(st.job_list, st.this_job))
    ELSE ParseDetailedLines(Tail(lines), DetailedLine(st, Head(lines)))

\* jobdata_raw = [l for l in stdout.splitlines() if l]
JobdataRaw(stdout) == SelectSeq(stdout, LAMBDA l : l # <<>>)

\* the body of _parse_joblist_output after the test of retval
ParseJoblistStdout(stdout) ==
    LET jobdata_raw == JobdataRaw(stdout)
    IN  IF Len(jobdata_raw) < 2 THEN Raise("IndexError")
        ELSE IF Contains(S_separator, jobdata_raw[2])
             THEN ParseQueueRows(SubSeq(jobdata_raw, 3, Len(jobdata_raw)), <<>>)
        ELSE IF Contains(S_jobid_eq, jobdata_raw[1])
             THEN ParseDetailedLines(jobdata_raw, DetailedState("none", NoneObject, <<>>))
        ELSE Ok(<<>>)

\* _parse_joblist_output without the test of retval
ParseJoblistOutput_IgnoreRetval(retval, stdout, stderr) == ParseJoblistStdout(stdout)

ParseJoblistOutput(retval, stdout, stderr) ==
    IF retval # 0 THEN Raise("SchedulerError") ELSE ParseJoblistStdout(stdout)

(***************************************************************************)
(* _TOMATO_SUBMITTED_REGEXP and _parse_submit_output                       *)
(***************************************************************************)
\* the first position from i on that holds no whitespace (Len(s) + 1 if none)
RECURSIVE SkipWS(_, _)
SkipWS(s, i) ==
    IF i <= Len(s) /\ s[i] \in WhiteSpace THEN SkipWS(s, i + 1) ELSE i

\* the first position from i on that holds no digit
RECURSIVE SkipDigits(_, _)
SkipDigits(s, i) ==
    IF i <= Len(s) /\ s[i] \in Digits THEN SkipDigits(s, i + 1) ELSE i

\* (jobid\s+=)\s+(?P<jobid>\d+) matched at position i: the captured digits,
\* or the empty str where it does not match (\d+ captures at least one digit)
MatchJobidAt(s, i) ==
    LET a == i + Len(S_jobid)
        b == SkipWS(s, a)
        c == SkipWS(s, b + 1)
        d == SkipDigits(s, c)
    IN  IF /\ StartsWithAt(s, i, S_jobid)
           /\ b > a
           /\ b <= Len(s)
           /\ s[b] = "="
           /\ c > b + 1
           /\ d > c
        THEN SubSeq(s, c, d - 1)
        ELSE <<>>

\* _TOMATO_SUBMITTED_REGEXP.match(s).group("jobid"), the empty str for no
\* match.  The optional group (.*:\s*) is greedy: the last colon after which
\* the rest matches is taken, and the group is left out only if none does.
RegexpMatch(s) ==
    LET colons == {k \in 1..Len(s) : s[k] = ":" /\ MatchJobidAt(s, SkipWS(s, k + 1)) # <<>>}
    IN  IF colons # {}
        THEN LET last == CHOOSE k \in colons : \A m \in colons : m <= k
             IN  MatchJobidAt(s, SkipWS(s, last + 1))
        ELSE MatchJobidAt(s, 1)

\* the scan of the lines with the last matching line returned
RECURSIVE FirstMatch_LastWins(_)
FirstMatch_LastWins(lines) ==
    IF lines = <<>> THEN Raise("SchedulerError")
    ELSE LET jobid == RegexpMatch(Strip(Head(lines)))
             rest == FirstMatch_LastWins(Tail(lines))
         IN  IF rest.exc = "none" THEN rest
             ELSE IF jobid # <<>> THEN Ok(jobid) ELSE rest

\* for line in stdout.split("\n"): the first line that matches returns
RECURSIVE FirstMatch(_)
FirstMatch(lines) ==
    IF lines = <<>> THEN Raise("SchedulerError")
    ELSE LET jobid == RegexpMatch(Strip(Head(lines)))
         IN  IF jobid # <<>> THEN Ok(jobid) ELSE FirstMatch(Tail(lines))

ParseSubmitOutput(retval, stdout, stderr) ==
    IF retval # 0 THEN Raise("SchedulerError") ELSE FirstMatch(stdout)

(***************************************************************************)
(* _parse_kill_output                                                      *)
(***************************************************************************)
\* _parse_kill_output with text on stderr taken for a failure
ParseKillOutput_StderrFails(retval, stdout, stderr) ==
    IF retval # 0 \/ Strip(stderr) # <<>> THEN Ok(FALSE) ELSE Ok(TRUE)

ParseKillOutput(retval, stdout, stderr) ==
    IF retval # 0 THEN Ok(FALSE) ELSE Ok(TRUE)

(***************************************************************************)
(* _get_submit_script_header and _get_submit_command                       *)
(***************************************************************************)
\* the size of the slice job_title[:128]
MaxTitleLen == 128

\* the characters re.sub(r"[^a-zA-Z0-9_.-]+", "", ...) leaves in place
TitleChars == AsciiLetters \cup Digits \cup {"_", ".", "-"}

\* job_title after the substitution, the 'j' prefix and the truncation,
\* with the truncation done before the prefix is added
JobTitle_TruncateFirst(job_name) ==
    LET kept == SelectSeq(job_name, LAMBDA ch : ch \in TitleChars)
        cut == SubSeq(kept, 1, IF Len(kept) < MaxTitleLen THEN Len(kept) ELSE MaxTitleLen)
    IN  IF cut = <<>> \/ cut[1] \notin (AsciiLetters \cup Digits) THEN S_j \o cut ELSE cut

\* job_title after the substitution, the 'j' prefix and the truncation
JobTitle(job_name) ==
    LET kept == SelectSeq(job_name, LAMBDA ch : ch \in TitleChars)
        named == IF kept = <<>> \/ kept[1] \notin (AsciiLetters \cup Digits)
                 THEN S_j \o kept
                 ELSE kept
    IN  SubSeq(named, 1, IF Len(named) < MaxTitleLen THEN Len(named) ELSE MaxTitleLen)

\* the value returned by _get_submit_script_header
SubmitScriptHeader(job_tmpl) ==
    IF job_tmpl.job_name # None /\ job_tmpl.job_name # <<>>
    THEN IF job_tmpl.shell_type = S_powershell
         THEN S_dollar \o S_JOB_TITLE \o JobTitle(job_tmpl.job_name) \o S_quote
         ELSE S_JOB_TITLE \o JobTitle(job_tmpl.job_name) \o S_quote
    ELSE <<>>

\* the value returned by _get_submit_command when the class attribute
\* _shell_cmd holds cmd
SubmitCommand(cmd, submit_script) == cmd \o S_space \o submit_script

(***************************************************************************)
(* _get_joblist_command                                                    *)
(***************************************************************************)
S_ketchup_status == <<"k", "e", "t", "c", "h", "u", "p", " ", "s", "t", "a", "t", "u", "s", " ">>
S_ketchup_status_queue == <<"k", "e", "t", "c", "h", "u", "p", " ", "s", "t", "a", "t", "u", "s", " ", "q", "u", "e", "u", "e">>
S_and == <<" ", "&", "&", " ">>

\* the arguments jobs and user: a Python value with its type
PyNone == [type |-> "NoneType"]
PyStr(s) == [type |-> "str", chars |-> s]
PyList(l) == [type |-> "list", items |-> l]
PyInt(n) == [type |-> "int", number |-> n]

\* the truth value of  if x:  (None, 0, "" and [] are false)
Truthy(x) ==
    CASE x.type = "NoneType" -> FALSE
      [] x.type = "int" -> x.number # 0
      [] x.type = "str" -> x.chars # <<>>
      [] x.type = "list" -> x.items # <<>>

\* aiida.common.escaping.escape_for_bash: the value in single quotes, each
\* single quote of it written as '"'"'
RECURSIVE EscapeQuotes(_)
EscapeQuotes(s) ==
    IF s = <<>> THEN <<>>
    ELSE IF Head(s) = "'"
         THEN <<"'", "\"", "'", "\"", "'">> \o EscapeQuotes(Tail(s))
         ELSE <<Head(s)>> \o EscapeQuotes(Tail(s))

EscapeForBash(s) == S_quote \o EscapeQuotes(s) \o S_quote

\* the join with the sub-commands in reverse order
RECURSIVE JoinStatusCommands_Reversed(_)
JoinStatusCommands_Reversed(jobs) ==
    IF jobs = <<>> THEN <<>>
    ELSE IF Len(jobs) = 1 THEN S_ketchup_status \o Head(jobs)
    ELSE JoinStatusCommands_Reversed(Tail(jobs)) \o S_and \o S_ketchup_status \o Head(jobs)

\* " && ".join(f"ketchup status {j}" for j in jobs)
RECURSIVE JoinStatusCommands(_)
JoinStatusCommands(jobs) ==
    IF jobs = <<>> THEN <<>>
    ELSE IF Len(jobs) = 1 THEN S_ketchup_status \o Head(jobs)
    ELSE S_ketchup_status \o Head(jobs) \o S_and \o JoinStatusCommands(Tail(jobs))

\* _get_joblist_command(jobs, user)
GetJoblistCommand(jobs, user) ==
    IF Truthy(user) THEN Raise("FeatureNotAvailable")
    ELSE IF Truthy(jobs) THEN
        IF jobs.type = "str" THEN Ok(S_ketchup_status \o EscapeForBash(jobs.chars))
        ELSE IF jobs.type = "list" THEN Ok(JoinStatusCommands(jobs.items))
        ELSE Raise("TypeError")
    ELSE Ok(S_ketchup_status_queue)

(***************************************************************************)
(* The inputs of the calls                                                 *)
(***************************************************************************)
MaxRows == 2
MaxDetailed == 3
MaxShort == 2
MaxSubmitLines == 3
MaxHead == 2
PadSlack == 1

\* the sequences over S of length at most n
SeqsUpTo(S, n) == UNION {[1..k -> S] : k \in 0..n}

L_header == <<"j", "o", "b", "i", "d", " ", "j", "o", "b", "n", "a", "m", "e", " ", "s", "t", "a", "t", "u", "s", " ", "p", "i", "p", "e", "l", "i", "n", "e">>
L_separator == <<"=", "=", "=", "=", "=", "=", "=", "=", "=", "=">>
L_blank_row == <<" ", " ">>
L_row_2_fields == <<"4", " ", "d">>
L_row_5_fields == <<"5", " ", "e", " ", "c", " ", "p", " ", "x">>
L_jobid_1 == <<"j", "o", "b", "i", "d", " ", "=", " ", "1">>
L_jobid_2 == <<"j", "o", "b", "i", "d", " ", "=", " ", "2">>
L_jobid_empty == <<"j", "o", "b", "i", "d", " ", "=">>
L_jobname == <<"j", "o", "b", "n", "a", "m", "e", " ", "=", " ", "a">>
L_jobname_eq == <<"j", "o", "b", "n", "a", "m", "e", " ", "=", " ", "a", "=", "b">>
L_status_r == <<"s", "t", "a", "t", "u", "s", " ", "=", " ", "r">>
L_status_ce == <<"s", "t", "a", "t", "u", "s", " ", "=", " ", "c", "e">>
L_status_zz == <<"s", "t", "a", "t", "u", "s", " ", "=", " ", "z", "z">>
L_submitted == <<"s", "u", "b", "m", "i", "t", "t", "e", "d", " ", "a", "t", " ", "=", " ", "2", "0", "2", "2", "-", "0", "1", "-", "0", "1">>
L_completed_bad == <<"c", "o", "m", "p", "l", "e", "t", "e", "d", " ", "a", "t", " ", "=", " ", "x">>
L_pipeline == <<"w", "i", "t", "h", " ", "p", "i", "p", "e", "l", "i", "n", "e", " ", "=", " ", "p">>
L_exit_status == <<"e", "x", "i", "t", " ", "s", "t", "a", "t", "u", "s", " ", "=", " ", "c">>
L_parent_jobid == <<"p", "a", "r", "e", "n", "t", " ", "j", "o", "b", "i", "d", " ", "=", " ", "9">>
L_submitting == <<"S", "u", "b", "m", "i", "t", "t", "i", "n", "g", ".", ".", ".">>
L_sub_4821 == <<"j", "o", "b", "i", "d", " ", "=", " ", "4", "8", "2", "1">>
L_sub_7_padded == <<" ", " ", "j", "o", "b", "i", "d", " ", "=", " ", "7", " ", " ">>
L_sub_prefix == <<"t", "o", "m", "a", "t", "o", ":", " ", "j", "o", "b", "i", "d", " ", "=", " ", "1", "2">>
L_sub_two == <<"j", "o", "b", "i", "d", " ", "=", " ", "1", ":", " ", "j", "o", "b", "i", "d", " ", "=", " ", "2">>
L_sub_trailing == <<"j", "o", "b", "i", "d", " ", "=", " ", "3", "5", "a", "b">>
L_sub_nospace == <<"j", "o", "b", "i", "d", "=", "5">>
L_sub_nodigits == <<"j", "o", "b", "i", "d", " ", "=", " ", "x">>
L_sub_noprefix == <<"t", "h", "e", " ", "j", "o", "b", "i", "d", " ", "=", " ", "3">>
L_note == <<"n", "o", "t", "e", " ", "=", " ", "x">>
L_eq_before_jobid == <<"a", " ", "=", " ", "j", "o", "b", "i", "d", " ", "=", " ", "1">>
L_warning == <<"w", "a", "r", "n", "i", "n", "g">>
L_script == <<"_", "a", "i", "i", "d", "a", "s", "u", "b", "m", "i", "t", ".", "s", "h">>

\* a status code outside _MAP_STATUS_TOMATO
UnknownCode == <<"z", "z">>

\* rows of 'ketchup status queue': three or four fields with every status
\* code, and rows of zero, two and five fields; the empty line is dropped
\* by the list comprehension
QueueRows ==
    {<<"1", " ", "a", " ">> \o code : code \in StatusCodes \cup {UnknownCode}}
    \cup {<<"2", " ", "b", " ">> \o code \o <<" ", "p">> : code \in StatusCodes \cup {UnknownCode}}
    \cup {L_blank_row, L_row_2_fields, L_row_5_fields, <<>>}

\* lines of 'ketchup status {jobid}'
DetailedLines ==
    {L_jobid_1, L_jobid_2, L_jobid_empty, L_jobname, L_jobname_eq, L_status_r,
     L_status_ce, L_status_zz, L_submitted, L_completed_bad, L_pipeline,
     L_exit_status, L_parent_jobid}

\* stdout of the joblist command, as the list stdout.splitlines()
JoblistStdouts ==
    {<<L_header, L_separator>> \o rows : rows \in SeqsUpTo(QueueRows, MaxRows)}
    \cup SeqsUpTo(DetailedLines, MaxDetailed)
    \cup SeqsUpTo({L_header, L_separator, L_row_2_fields, L_jobid_1, L_status_r, L_note,
                     L_eq_before_jobid, <<>>}, MaxShort)

\* stdout of the submit command, as the list stdout.split("\n")
SubmitStdouts ==
    SeqsUpTo({L_submitting, L_sub_4821, L_sub_7_padded, L_sub_prefix, L_sub_two,
              L_sub_trailing, L_sub_nospace, L_sub_nodigits, L_sub_noprefix, <<>>},
             MaxSubmitLines)

KillStdouts == {<<>>, L_warning}

Stderrs == {<<>>, L_warning}

RetVals == {0, 1, 2}

\* job names: a head of at most MaxHead characters, letters, digits, allowed
\* and disallowed punctuation, then a run of 'b' about MaxTitleLen long
NameChars == {"a", "7", "-", "_", ".", "!", " "}

Pad(n) == [k \in 1..n |-> "b"]

PadLens == {0} \cup ((MaxTitleLen - 2)..(MaxTitleLen + PadSlack))

JobNames == {None} \cup {h \o Pad(n) : h \in SeqsUpTo(NameChars, MaxHead), n \in PadLens}

ShellTypes == {S_bash, S_powershell}

\* job templates of the header specification
HeaderTemplates == [shell_type : ShellTypes, job_name : JobNames]

\* job templates of concurrent submissions
SubmitTemplates == [shell_type : ShellTypes, job_name : {None, <<"a">>, <<"-", "a">>}]

\* the callers that submit concurrently
Callers == {"t1", "t2"}

(***************************************************************************)
(* State machine                                                           *)
(***************************************************************************)
NoTemplate == [shell_type |-> <<>>, job_name |-> None]

NoCall == [op |-> "none", retval |-> 0, stdout |-> <<>>, stderr |-> <<>>]

\* a call that has not returned yet
Pending == [exc |-> "pending", val |-> None]

\* the arguments the transport hands to the three parsers
ParserCalls ==
    [op : {"parse_joblist"}, retval : RetVals, stdout : JoblistStdouts, stderr : Stderrs]
    \cup [op : {"parse_submit"}, retval : RetVals, stdout : SubmitStdouts, stderr : Stderrs]
    \cup [op : {"parse_kill"}, retval : RetVals, stdout : KillStdouts, stderr : Stderrs]

\* _shell_cmd = "" is the class attribute and no caller has started
InitScheduler ==
    /\ shell_cmd = <<>>
    /\ pc = [t \in Callers |-> "start"]
    /\ tmpl = [t \in Callers |-> NoTemplate]
    /\ header = [t \in Callers |-> <<>>]
    /\ command = [t \in Callers |-> <<>>]

\* a command has been executed and its retval, stdout and stderr wait to be parsed
Init ==
    /\ InitScheduler
    /\ call \in ParserCalls
    /\ result = Pending

\* no parser call is under way
InitSubmit ==
    /\ InitScheduler
    /\ call = NoCall
    /\ result = Pending

\* caller t builds the header of its submit script: the class attribute
\* TomatoScheduler._shell_cmd is overwritten with the template's shell type
GetSubmitScriptHeader(t, job_tmpl) ==
    /\ pc[t] = "start"
    /\ shell_cmd' = job_tmpl.shell_type
    /\ tmpl' = [tmpl EXCEPT ![t] = job_tmpl]
    /\ header' = [header EXCEPT ![t] = SubmitScriptHeader(job_tmpl)]
    /\ pc' = [pc EXCEPT ![t] = "header"]
    /\ UNCHANGED <<command, call, result>>

\* caller t asks for the command that submits its script: self._shell_cmd
\* reads the class attribute
GetSubmitCommand(t, submit_script) ==
    /\ pc[t] = "header"
    /\ command' = [command EXCEPT ![t] = SubmitCommand(shell_cmd, submit_script)]
    /\ pc' = [pc EXCEPT ![t] = "done"]
    /\ UNCHANGED <<shell_cmd, tmpl, header, call, result>>

CallParseJoblistOutput ==
    /\ call.op = "parse_joblist"
    /\ result = Pending
    /\ result' = ParseJoblistOutput(call.retval, call.stdout, call.stderr)
    /\ UNCHANGED <<shell_cmd, pc, tmpl, header, command, call>>

CallParseSubmitOutput ==
    /\ call.op = "parse_submit"
    /\ result = Pending
    /\ result' = ParseSubmitOutput(call.retval, call.stdout, call.stderr)
    /\ UNCHANGED <<shell_cmd, pc, tmpl, header, command, call>>

CallParseKillOutput ==
    /\ call.op = "parse_kill"
    /\ result = Pending
    /\ result' = ParseKillOutput(call.retval, call.stdout, call.stderr)
    /\ UNCHANGED <<shell_cmd, pc, tmpl, header, command, call>>

\* the parser the executed command belongs to is applied to its output
Next ==
    \/ CallParseJoblistOutput
    \/ CallParseSubmitOutput
    \/ CallParseKillOutput

Spec == Init /\ [][Next]_vars

\* submissions by concurrent callers
NextSubmit ==
    \E t \in Callers :
        \/ \E job_tmpl \in SubmitTemplates : GetSubmitScriptHeader(t, job_tmpl)
        \/ GetSubmitCommand(t, L_script)

SpecSubmit == InitSubmit /\ [][NextSubmit]_vars

\* one caller, every job name
NextHeader ==
    \/ \E job_tmpl \in HeaderTemplates : GetSubmitScriptHeader("t1", job_tmpl)
    \/ GetSubmitCommand("t1", L_script)

SpecHeader == InitSubmit /\ [][NextHeader]_vars

\* job ids handed to _get_joblist_command
MaxJobs == 3

JobIds == {<<"1">>, <<"2">>, <<"1", "7">>}

\* the jobs argument: absent, a str, a list of ids, or an int
JobsArguments ==
    {PyNone, PyInt(0), PyInt(5), PyStr(<<>>), PyStr(<<"1", "7">>), PyStr(<<"1", "'", "7">>)}
    \cup {PyList(l) : l \in SeqsUpTo(JobIds, MaxJobs)}

\* the user argument: absent, empty, or a user name
UserArguments == {PyNone, PyStr(<<>>), PyStr(<<"b", "o", "b">>)}

JoblistCommandCalls ==
    {[op |-> "joblist_command", jobs |-> j, user |-> u] : j \in JobsArguments, u \in UserArguments}

\* the engine is about to ask for the command that lists jobs
InitList ==
    /\ InitScheduler
    /\ call \in JoblistCommandCalls
    /\ result = Pending

CallGetJoblistCommand ==
    /\ call.op = "joblist_command"
    /\ result = Pending
    /\ result' = GetJoblistCommand(call.jobs, call.user)
    /\ UNCHANGED <<shell_cmd, pc, tmpl, header, command, call>>

NextList == CallGetJoblistCommand

SpecList == InitList /\ [][NextList]_vars

(***************************************************************************)
(* Properties                                                              *)
(***************************************************************************)
\* the parser applied to the call has returned or raised
Returned == result.exc # "pending"

\* the state the status table assigns to a vendor code
ClaimedState(code) ==
    IF code \in {<<"q">>, <<"q", "w">>} THEN QUEUED
    ELSE IF code = <<"r">> THEN RUNNING
    ELSE IF code \in {<<"c">>, <<"c", "e">>, <<"c", "d">>} THEN DONE
    ELSE UNDETERMINED

\* C1: under any interleaving of submissions by concurrent callers, the
\* command a caller gets from submitCommand runs its script with the shell
\* dialect of that caller's own job template.
C1_CommandUsesOwnDialect ==
    \A t \in Callers :
        pc[t] = "done" => command[t] = tmpl[t].shell_type \o S_space \o L_script

\* C3: parseJobList and parseSubmitOutput called with retcode != 0 raise a
\* scheduler error and return nothing, whatever stdout and stderr hold.
C3_NonZeroRetcodeRaises ==
    (/\ call.op \in {"parse_joblist", "parse_submit"}
     /\ Returned
     /\ call.retval # 0)
    => (result.exc = "SchedulerError" /\ result.val = None)

\* a job list that parses to two records with retcode 0 was handed over with
\* a non-zero retcode and text on stderr, and the call raised
C3_Witness ==
    /\ call.op = "parse_joblist"
    /\ call.retval # 0
    /\ call.stderr # <<>>
    /\ call.stdout = <<L_jobid_1, L_status_r, L_jobid_2>>
    /\ result.exc = "SchedulerError"

\* C8: with retcode 0, parseSubmitOutput returns the digits captured from
\* the first stdout line that matches '[prefix:] jobid = <digits>', later
\* matching lines and stderr having no effect; if no line matches it raises
\* a scheduler error.
C8_FirstMatchingLineWins ==
    (/\ call.op = "parse_submit"
     /\ Returned
     /\ call.retval = 0)
    => LET matching == {k \in 1..Len(call.stdout) :
                           RegexpMatch(Strip(call.stdout[k])) # <<>>}
       IN  /\ matching = {} => (result.exc = "SchedulerError" /\ result.val = None)
           /\ matching # {} =>
                  LET first == CHOOSE k \in matching : \A m \in matching : k <= m
                  IN  /\ result.exc = "none"
                      /\ result.val = RegexpMatch(Strip(call.stdout[first]))
                      /\ \A k \in 1..Len(result.val) : result.val[k] \in Digits
                      /\ result.val # <<>>
           /\ call.stdout = <<L_submitting, L_sub_4821, <<>>>>
                  => result.val = <<"4", "8", "2", "1">>
           /\ call.stdout = <<L_sub_prefix>> => result.val = <<"1", "2">>
           /\ call.stdout = <<L_sub_nospace, L_sub_noprefix, L_sub_nodigits>>
                  => result.exc = "SchedulerError"

\* two lines match with different ids, stderr holds text, and the id of the
\* first one is returned
C8_Witness ==
    /\ call.op = "parse_submit"
    /\ call.retval = 0
    /\ call.stderr # <<>>
    /\ call.stdout = <<L_submitting, L_sub_7_padded, L_sub_4821>>
    /\ result.exc = "none"
    /\ result.val = <<"7">>

\* C9: parseKillOutput never raises and returns true exactly when the
\* retcode is 0, whatever stdout and stderr hold.
C9_KillTrueIffRetcodeZero ==
    (call.op = "parse_kill" /\ Returned)
    => (result.exc = "none" /\ result.val = (call.retval = 0))

\* a kill command that exited with 0 and wrote to stdout and stderr is
\* reported as successful
C9_Witness ==
    /\ call.op = "parse_kill"
    /\ call.retval = 0
    /\ call.stdout # <<>>
    /\ call.stderr # <<>>
    /\ result.exc = "none"
    /\ result.val = TRUE

\* the job title of a header: what is left of it without the assignment
\* syntax of the template's dialect
HeaderPrefix(job_tmpl) ==
    IF job_tmpl.shell_type = S_powershell THEN S_dollar \o S_JOB_TITLE ELSE S_JOB_TITLE

TitleOf(job_tmpl, hdr) == SubSeq(hdr, Len(HeaderPrefix(job_tmpl)) + 1, Len(hdr) - 1)

\* C10: for every non-empty job name the title in the header starts with a
\* letter or digit, holds only letters, digits, '.', '-' and '_', and is at
\* most 128 characters long; with no job name the header is empty.
C10_HeaderTitleIsValid ==
    \A t \in Callers :
        pc[t] # "start" =>
            IF tmpl[t].job_name # None /\ tmpl[t].job_name # <<>>
            THEN LET title == TitleOf(tmpl[t], header[t])
                 IN  /\ header[t] = HeaderPrefix(tmpl[t]) \o title \o S_quote
                     /\ Len(title) >= 1
                     /\ Len(title) <= 128
                     /\ title[1] \in AsciiLetters \cup Digits
                     /\ \A k \in 1..Len(title) :
                            title[k] \in AsciiLetters \cup Digits \cup {".", "-", "_"}
            ELSE header[t] = <<>>

\* a name whose sanitized form is 128 characters long and starts with '-'
\* got the prefix and was cut back to 128 characters
C10_Witness ==
    /\ pc["t1"] = "header"
    /\ tmpl["t1"].job_name = <<"!", "-">> \o Pad(MaxTitleLen - 1)
    /\ Len(TitleOf(tmpl["t1"], header["t1"])) = 128
    /\ TitleOf(tmpl["t1"], header["t1"])[1] = "j"
    /\ TitleOf(tmpl["t1"], header["t1"])[2] = "-"

\* a separator line of the tabular listing: a row of '=' characters
IsSeparator(l) == Len(l) >= Len(S_separator) /\ \A k \in 1..Len(l) : l[k] = "="

\* stdout is a tabular listing: a header line, a separator line, then rows
TabularListing(stdout) ==
    /\ Len(stdout) >= 2
    /\ stdout[1] # <<>>
    /\ ~IsSeparator(stdout[1])
    /\ IsSeparator(stdout[2])
    /\ \A k \in 3..Len(stdout) : stdout[k] # <<>>

\* C4: for a tabular listing whose n >= 0 rows each have 3 or 4 fields and
\* retcode 0, parseJobList returns n records in row order, the i-th with
\* job_id, title, mapped state and pipeline (absent for 3 fields) taken from
\* the fields of the i-th row; for n = 0 the list is empty.
C4_TabularRowsBecomeRecords ==
    (/\ call.op = "parse_joblist"
     /\ Returned
     /\ call.retval = 0
     /\ TabularListing(call.stdout)
     /\ \A k \in 3..Len(call.stdout) : Len(SplitWS(call.stdout[k])) \in {3, 4})
    => /\ result.exc = "none"
       /\ Len(result.val) = Len(call.stdout) - 2
       /\ \A i \in 1..Len(result.val) :
              LET fields == SplitWS(call.stdout[i + 2])
              IN  /\ result.val[i].job_id = fields[1]
                  /\ result.val[i].title = fields[2]
                  /\ result.val[i].job_state = ClaimedState(fields[3])
                  /\ result.val[i].pipeline =
                         IF Len(fields) = 4 THEN fields[4] ELSE None

\* a listing of a 4-field row and a 3-field row gave two records, the first
\* with its pipeline and the second without
C4_Witness ==
    /\ call.op = "parse_joblist"
    /\ call.retval = 0
    /\ TabularListing(call.stdout)
    /\ Len(call.stdout) = 4
    /\ result.exc = "none"
    /\ Len(result.val) = 2
    /\ result.val[1].job_id = <<"2">>
    /\ result.val[1].job_state = RUNNING
    /\ result.val[1].pipeline = <<"p">>
    /\ result.val[2].job_id = <<"1">>
    /\ result.val[2].pipeline = None

\* C5: in a tabular listing, a row whose field count is neither 3 nor 4
\* makes parseJobList fail for the whole poll, with no partial list,
\* whatever well-formed rows precede or follow it.
C5_BadColumnCountIsFatal ==
    (/\ call.op = "parse_joblist"
     /\ Returned
     /\ call.retval = 0
     /\ TabularListing(call.stdout)
     /\ \E k \in 3..Len(call.stdout) : Len(SplitWS(call.stdout[k])) \notin {3, 4})
    => (result.exc \in {"ValueError", "IndexError"} /\ result.val = None)

\* a well-formed row followed by a row of five fields: the call raised
C5_Witness ==
    /\ call.op = "parse_joblist"
    /\ call.retval = 0
    /\ TabularListing(call.stdout)
    /\ Len(call.stdout) = 4
    /\ Len(SplitWS(call.stdout[3])) = 3
    /\ call.stdout[4] = L_row_5_fields
    /\ result.exc = "ValueError"

\* C2: every record of a list returned by parseJobList has a job_id and a
\* state that are not null, in either layout and for any input lines.
C2_RecordsHaveIdAndState ==
    (call.op = "parse_joblist" /\ Returned /\ result.exc = "none")
    => \A i \in 1..Len(result.val) :
           /\ result.val[i].type = "JobInfo"
           /\ result.val[i].job_id # None
           /\ result.val[i].job_state # None

\* the position of the first '=' of a line (0 if it has none)
FirstEq(l) ==
    IF \E k \in 1..Len(l) : l[k] = "="
    THEN CHOOSE k \in 1..Len(l) : l[k] = "=" /\ \A m \in 1..(k - 1) : l[m] # "="
    ELSE 0

\* the key and the value of a 'key = value' line
KeyOf(l) == Strip(SubSeq(l, 1, FirstEq(l) - 1))

ValueOf(l) == Strip(SubSeq(l, FirstEq(l) + 1, Len(l)))

\* the fixed keys of the detailed report
FixedKeys ==
    {S_jobid, S_jobname, S_status, S_submitted_at, S_executed_at, S_completed_at,
     S_with_pipeline, S_with_PID}

\* stdout is a detailed report: 'key = value' lines with the fixed keys and
\* one '=' each, the first of them a jobid line
DetailedReport(stdout) ==
    /\ Len(stdout) >= 1
    /\ \A k \in 1..Len(stdout) :
           /\ FirstEq(stdout[k]) > 0
           /\ Cardinality({m \in 1..Len(stdout[k]) : stdout[k][m] = "="}) = 1
           /\ KeyOf(stdout[k]) \in FixedKeys
    /\ KeyOf(stdout[1]) = S_jobid

\* the lines of a report whose key is jobid, and the n-th of them
JobidLines(stdout) == {k \in 1..Len(stdout) : KeyOf(stdout[k]) = S_jobid}

NthJobidLine(stdout, n) ==
    CHOOSE p \in JobidLines(stdout) :
        Cardinality({q \in JobidLines(stdout) : q <= p}) = n

\* the last line of the block the n-th jobid line opens
BlockEnd(stdout, n) ==
    IF n = Cardinality(JobidLines(stdout))
    THEN Len(stdout)
    ELSE NthJobidLine(stdout, n + 1) - 1

\* the value of the last line with the key in the n-th block (None if the
\* block has no such line)
BlockValue(stdout, n, key) ==
    LET hits == {k \in NthJobidLine(stdout, n)..BlockEnd(stdout, n) :
                    KeyOf(stdout[k]) = key}
    IN  IF hits = {} THEN None
        ELSE ValueOf(stdout[CHOOSE k \in hits : \A m \in hits : m <= k])

\* the records a detailed report stands for: one per jobid line, in stream
\* order, each filled from the lines of its own block only
RecordsFollowBlocks(stdout, records) ==
    /\ Len(records) = Cardinality(JobidLines(stdout))
    /\ \A n \in 1..Len(records) :
           /\ records[n].type = "JobInfo"
           /\ records[n].job_id = ValueOf(stdout[NthJobidLine(stdout, n)])
           /\ records[n].title = BlockValue(stdout, n, S_jobname)
           /\ records[n].allocated_machines = BlockValue(stdout, n, S_with_pipeline)
           /\ records[n].job_state =
                  IF BlockValue(stdout, n, S_status) = None THEN None
                  ELSE ClaimedState(BlockValue(stdout, n, S_status))

\* C6: for a detailed report with retcode 0 that holds k >= 1 jobid lines,
\* parseJobList returns k records in stream order: a jobid line closes the
\* open record and opens the next, every other line updates the record of
\* the latest jobid line only, and the last record is appended at the end.
C6_DetailedReportYieldsKRecords ==
    (/\ call.op = "parse_joblist"
     /\ Returned
     /\ call.retval = 0
     /\ DetailedReport(call.stdout))
    => (result.exc = "none" /\ RecordsFollowBlocks(call.stdout, result.val))

\* C7: q and qw map to QUEUED, r to RUNNING, c, ce and cd to DONE and any
\* other status string to UNDETERMINED; in the tabular and in the detailed
\* layout an unrecognized status code does not make parseJobList fail, and
\* its record is returned with state UNDETERMINED.
C7_StatusMapIsTotal ==
    (call.op = "parse_joblist" /\ Returned /\ call.retval = 0)
    => /\ result.exc # "KeyError"
       /\ (/\ TabularListing(call.stdout)
            /\ \A k \in 3..Len(call.stdout) : Len(SplitWS(call.stdout[k])) \in {3, 4})
           => /\ result.exc = "none"
              /\ Len(result.val) = Len(call.stdout) - 2
              /\ \A i \in 1..Len(result.val) :
                     result.val[i].job_state = ClaimedState(SplitWS(call.stdout[i + 2])[3])
       /\ (DetailedReport(call.stdout) /\ Len(call.stdout) >= 2)
           => /\ result.exc = "none"
              /\ Len(result.val) = Cardinality(JobidLines(call.stdout))
              /\ \A n \in 1..Len(result.val) :
                     BlockValue(call.stdout, n, S_status) # None
                     => result.val[n].job_state =
                            ClaimedState(BlockValue(call.stdout, n, S_status))

\* a detailed report of two jobs, the second with an unknown status code,
\* gave two records, the second with state UNDETERMINED
C7_Witness ==
    /\ call.op = "parse_joblist"
    /\ call.retval = 0
    /\ call.stdout = <<L_jobid_1, L_jobid_2, L_status_zz>>
    /\ result.exc = "none"
    /\ Len(result.val) = 2
    /\ result.val[1].job_state = None
    /\ result.val[2].job_state = UNDETERMINED

\* the pieces of a command between its ' && ' conjunctions
RECURSIVE SplitOnAnd(_, _, _)
SplitOnAnd(s, cur, acc) ==
    IF s = <<>> THEN Append(acc, cur)
    ELSE IF StartsWithAt(s, 1, S_and)
         THEN SplitOnAnd(SubSeq(s, Len(S_and) + 1, Len(s)), <<>>, Append(acc, cur))
         ELSE SplitOnAnd(Tail(s), Append(cur, Head(s)), acc)

\* C11: listCommand with no user filter and a non-empty list of n job ids
\* returns n single-job status sub-commands joined by '&&', the i-th naming
\* the i-th id (order and multiplicity kept); with empty or absent jobs it
\* returns the list-entire-queue command.
C11_OneStatusCommandPerJob ==
    (call.op = "joblist_command" /\ Returned /\ call.user = PyNone)
    => /\ (call.jobs.type = "list" /\ call.jobs.items # <<>>)
          => /\ result.exc = "none"
             /\ LET parts == SplitOnAnd(result.val, <<>>, <<>>)
                IN  /\ Len(parts) = Len(call.jobs.items)
                    /\ \A i \in 1..Len(parts) :
                           parts[i] = <<"k", "e", "t", "c", "h", "u", "p", " ",
                                        "s", "t", "a", "t", "u", "s", " ">>
                                      \o call.jobs.items[i]
       /\ (call.jobs = PyNone \/ call.jobs = PyList(<<>>))
          => /\ result.exc = "none"
             /\ result.val = <<"k", "e", "t", "c", "h", "u", "p", " ",
                               "s", "t", "a", "t", "u", "s", " ",
                               "q", "u", "e", "u", "e">>

\* three ids, one of them twice, gave three sub-commands in input order
C11_Witness ==
    /\ call.op = "joblist_command"
    /\ call.user = PyNone
    /\ call.jobs = PyList(<<<<"1">>, <<"1", "7">>, <<"1">>>>)
    /\ result.exc = "none"
    /\ Len(SplitOnAnd(result.val, <<>>, <<>>)) = 3
    /\ SplitOnAnd(result.val, <<>>, <<>>)[2] = S_ketchup_status \o <<"1", "7">>

\* C12: listCommand with a jobs argument that is neither a string nor an
\* iterable (an integer, 0 included) fails with an input-type error and
\* returns no command.
C12_NonIterableJobsRaises ==
    (/\ call.op = "joblist_command"
     /\ Returned
     /\ call.user = PyNone
     /\ call.jobs.type = "int")
    => (result.exc = "TypeError" /\ result.val = None)

\* stdout is a report of 'key = value' lines, the first of them a jobid
\* line, with at least two lines
KeyValueReport(stdout) ==
    /\ Len(stdout) >= 2
    /\ \A k \in 1..Len(stdout) : FirstEq(stdout[k]) > 0
    /\ KeyOf(stdout[1]) = S_jobid

\* C13: in the detailed report a line is split on its first '=' only: the
\* value stored for a key is the whole trimmed text after the first '=', so
\* a value that holds '=' is kept in full.
C13_ValueIsTextAfterFirstEq ==
    (/\ call.op = "parse_joblist"
     /\ Returned
     /\ call.retval = 0
     /\ KeyValueReport(call.stdout)
     /\ \A k \in 1..Len(call.stdout) : KeyOf(call.stdout[k]) \in FixedKeys)
    => (result.exc = "none" /\ RecordsFollowBlocks(call.stdout, result.val))

\* C14: in the detailed report a line is dispatched only when its key is
\* exactly one of the fixed keys; a line with any other key, one that holds
\* a fixed key as a substring included, opens no record, changes no field
\* and does not make the parse fail.
C14_OnlyExactKeysDispatch ==
    (/\ call.op = "parse_joblist"
     /\ Returned
     /\ call.retval = 0
     /\ KeyValueReport(call.stdout)
     /\ \A k \in 1..Len(call.stdout) :
            Cardinality({m \in 1..Len(call.stdout[k]) : call.stdout[k][m] = "="}) = 1)
    => (result.exc = "none" /\ RecordsFollowBlocks(call.stdout, result.val))

\* stdout is a tabular listing with a row whose field count is not 3 or 4
\* (empty lines are not rows)
TabularWithBadRow(stdout) ==
    LET lines == SelectSeq(stdout, LAMBDA l : l # <<>>)
    IN  /\ Len(lines) >= 3
        /\ IsSeparator(lines[2])
        /\ \E k \in 3..Len(lines) : Len(SplitWS(lines[k])) \notin {3, 4}

\* C15: with retcode 0 parseJobList fails only on a tabular row whose field
\* count is not 3 or 4; for every other stdout (empty, a single line, text
\* of neither layout) it returns a list whose elements are all job records.
C15_OnlyBadRowsFail ==
    (/\ call.op = "parse_joblist"
     /\ Returned
     /\ call.retval = 0
     /\ ~TabularWithBadRow(call.stdout))
    => /\ result.exc = "none"
       /\ \A i \in 1..Len(result.val) : result.val[i].type = "JobInfo"

====
